---- MODULE Spec2Model ----
(***************************************************************************)
(* Model of the query-resolution pipeline of Agri-Voice-RAG:               *)
(*   vocabulary_corrector.py          VocabularyCorrector                  *)
(*   agricultural_rag_pipeline.py      AgriculturalRAGPipeline              *)
(*   contextual_knowledge_engine.py    ContextualKnowledgeEngine            *)
(*   rag/.system/optimization_engine.py PerformanceOptimizer                *)
(*                                                                         *)
(* A text is a sequence of words (the single-space separated tokens of a   *)
(* Python string); a word is a TLA+ string.  Similarity scores are         *)
(* hundredths (0.85 is 85).                                                *)
(***************************************************************************)
EXTENDS Integers, Sequences, FiniteSets, TLC

\* -------------------------------------------------------------------------
\* Bounds of the model
\* -------------------------------------------------------------------------
\* number of pipeline calls in one behaviour (bounds the cache size and the
\* access_count of an entry, both unbounded in the code)
MaxCalls == 2
\* number of tokens in a language-model reply
MaxReplyLen == 2
\* number of terms of a vocabulary table drawn for the corrector
MaxTerms == 2
\* number of words of a text drawn for the corrector
MaxTextLen == 2
\* number of retrieved chunks handed to answer generation on its own
MaxChunks == 2
\* the largest top_k asked of retrieve_ultra_fast on its own
MaxTopK == 2

\* -------------------------------------------------------------------------
\* Words and strings
\* -------------------------------------------------------------------------
\* the words of the texts drawn for the corrector
TableWords == {"a", "b", "A"}

\* str.lower() of one word
Lower(w) ==
    CASE w = "Dormulin" -> "dormulin"
      [] w = "A" -> "a"
      [] OTHER -> w

\* str.lower() of a text
LowerSeq(s) == [i \in 1..Len(s) |-> Lower(s[i])]

\* len() of one word, in characters
WordLen(w) ==
    CASE w \in {"a", "b", "c", "A"} -> 1
      [] w = "for" -> 3
      [] w \in {"best", "farm", "akre"} -> 4
      [] w \in {"phone", "basil"} -> 5
      [] w \in {"dormolin", "Dormulin", "dormulin"} -> 8
      [] w = "fertilizer" -> 10
      [] OTHER -> 1

RECURSIVE SumLen(_)
SumLen(s) == IF s = <<>> THEN 0 ELSE WordLen(Head(s)) + SumLen(Tail(s))

\* len() of a text: its words and the single spaces between them
StrLen(s) == IF s = <<>> THEN 0 ELSE SumLen(s) + (Len(s) - 1)

\* set(text.split())
WordSet(s) == {s[i] : i \in 1..Len(s)}

\* -------------------------------------------------------------------------
\* VocabularyCorrector (vocabulary_corrector.py)
\* -------------------------------------------------------------------------
\* A vocabulary is the sequence of the (correct_term, variations) items of
\* vocabulary.json in file order, the categories concatenated.
\* A correction map is a Python dict: a sequence of <<key, value>> in
\* insertion order.

\* dict[key] = value: an existing key keeps its position
DictSet(m, k, v) ==
    IF \E i \in 1..Len(m) : m[i][1] = k
    THEN [i \in 1..Len(m) |-> IF m[i][1] = k THEN <<k, v>> ELSE m[i]]
    ELSE Append(m, <<k, v>>)

DictHas(m, k) == \E i \in 1..Len(m) : m[i][1] = k

DictGet(m, k) == m[CHOOSE i \in 1..Len(m) : m[i][1] = k][2]

RECURSIVE AddVariations(_, _, _)
AddVariations(m, term, variations) ==
    IF variations = <<>> THEN m
    ELSE AddVariations(DictSet(m, LowerSeq(Head(variations)), term),
                       term, Tail(variations))

RECURSIVE BuildFrom(_, _)
BuildFrom(m, vocabulary) ==
    IF vocabulary = <<>> THEN m
    ELSE LET e == Head(vocabulary)
             m1 == DictSet(m, LowerSeq(e.term), e.term)
         IN BuildFrom(AddVariations(m1, e.term, e.variations), Tail(vocabulary))

build_correction_map(vocabulary) == BuildFrom(<<>>, vocabulary)

\* sorted(keys, key=len, reverse=True): stable, so keys of equal length keep
\* their insertion order
RECURSIVE SortedByLen(_)
SortedByLen(keys) ==
    IF keys = <<>> THEN <<>>
    ELSE LET i == CHOOSE j \in 1..Len(keys) :
                    /\ \A k \in 1..Len(keys) : StrLen(keys[k]) <= StrLen(keys[j])
                    /\ \A k \in 1..(j - 1) : StrLen(keys[k]) < StrLen(keys[j])
         IN <<keys[i]>> \o
            SortedByLen(SubSeq(keys, 1, i - 1) \o SubSeq(keys, i + 1, Len(keys)))

sorted_terms(m) == SortedByLen([i \in 1..Len(m) |-> m[i][1]])

\* re.sub(r'\b' + key + r'\b', repl, text, flags=re.IGNORECASE): every
\* non-overlapping whole-word occurrence, left to right; the replacement is
\* not scanned again
RECURSIVE ReSub(_, _, _)
ReSub(key, repl, text) ==
    IF text = <<>> \/ key = <<>> THEN text
    ELSE IF Len(text) >= Len(key) /\ LowerSeq(SubSeq(text, 1, Len(key))) = key
         THEN repl \o ReSub(key, repl, SubSeq(text, Len(key) + 1, Len(text)))
         ELSE <<Head(text)>> \o ReSub(key, repl, Tail(text))

RECURSIVE ApplyTerms(_, _, _)
ApplyTerms(terms, m, text) ==
    IF terms = <<>> THEN text
    ELSE ApplyTerms(Tail(terms), m, ReSub(Head(terms), DictGet(m, Head(terms)), text))

\* (faulty variant: a text without a word is returned stripped)
correct_query_stripped(vocabulary, query) ==
    LET m == build_correction_map(vocabulary)
        words == SelectSeq(query, LAMBDA w : w # "  ")
    IN IF words = <<>> \/ m = <<>> THEN words
       ELSE ApplyTerms(sorted_terms(m), m, words)

correct_query(vocabulary, query) ==
    LET m == build_correction_map(vocabulary)
    IN IF query = <<>> \/ m = <<>> THEN query
       ELSE ApplyTerms(sorted_terms(m), m, query)

\* the corrections reported: the words of the original that are no longer
\* words of the corrected text and are keys of the map (a set: the code
\* iterates a Python set)
get_corrections_applied(vocabulary, original_query, corrected_query) ==
    LET m == build_correction_map(vocabulary)
    IN IF LowerSeq(original_query) = LowerSeq(corrected_query) THEN {}
       ELSE {<<w, DictGet(m, <<w>>)>> :
               w \in {x \in WordSet(LowerSeq(original_query))
                           \ WordSet(LowerSeq(corrected_query)) : DictHas(m, <<x>>)}}

correct_agricultural_terms(vocabulary, query) ==
    LET corrected == correct_query(vocabulary, query)
    IN <<corrected, get_corrections_applied(vocabulary, query, corrected)>>

\* -------------------------------------------------------------------------
\* AgriculturalRAGPipeline (agricultural_rag_pipeline.py)
\* -------------------------------------------------------------------------
similarity_threshold == 85

\* response_cache["NON_AGRICULTURE"] and response_cache["NO_RELEVANT_CHUNKS"]
M1 == <<"I can answer only agriculture related queries.">>
M2 == <<"I don't know. I can help you by transferring the call to subject matter expertise if needed.">>

\* the domain-product terms, the head of both keyword lists
product_terms == {"dormulin", "zetol", "tracs", "akre", "trail", "actin"}

\* self.agri_patterns and self.non_agri_patterns, as far as the words of
\* the model can match them
agri_patterns == product_terms \cup {"chilli", "tomato", "banana", "fertilizer", "thrips"}
non_agri_patterns == {"smartphone", "phone", "budget", "laptop", "python"}

\* (faulty variant: the shortcut consults the comprehensive list)
agriculture_keywords_comprehensive == agri_patterns

\* the shortcut list of query_agricultural_knowledge
agriculture_keywords ==
    {"dormulin", "zetol", "tracs", "akre", "trail", "actin",
     "chilli", "tomato", "banana", "thrips", "aphids", "borer"}

\* the keywords of the lists above that occur in a lower-case word as a
\* substring (no keyword holds a space, so none spans two words)
KeywordsIn(w) ==
    CASE w = "akre" -> {"akre"}
      [] w = "dormulin" -> {"dormulin"}
      [] w = "fertilizer" -> {"fertilizer"}
      [] w = "phone" -> {"phone"}
      [] OTHER -> {}

\* any(keyword in question.lower() for keyword in keywords)
AnyKeyword(keywords, q) ==
    \E i \in 1..Len(q) : KeywordsIn(Lower(q[i])) \cap keywords # {}

\* A language-model reply is a sequence of tokens written without
\* separators; a call either returns a reply or raises.
ReplyTokens == {"NON_", "AGRICULTURE", "agriculture", "non_", "maybe"}

Upper(t) ==
    CASE t = "agriculture" -> "AGRICULTURE"
      [] t = "non_" -> "NON_"
      [] t = "maybe" -> "MAYBE"
      [] OTHER -> t

UpperSeq(s) == [i \in 1..Len(s) |-> Upper(s[i])]

\* pattern in text
Contains(text, pattern) ==
    \E i \in 1..(Len(text) - Len(pattern) + 1) :
        SubSeq(text, i, i + Len(pattern) - 1) = pattern

Raised == [raised |-> TRUE, content |-> <<>>]
Reply(content) == [raised |-> FALSE, content |-> content]

\* (faulty variant: AGRICULTURE is looked for first, so it is found inside
\* NON_AGRICULTURE)
classify_agriculture_first(outcome) ==
    IF outcome.raised THEN "NON_AGRICULTURE"
    ELSE LET result == UpperSeq(outcome.content)
         IN IF Contains(result, <<"AGRICULTURE">>) THEN "AGRICULTURE"
            ELSE "NON_AGRICULTURE"

\* _classify_with_openai, given what the model call does
classify_with_openai(outcome) ==
    IF outcome.raised THEN "NON_AGRICULTURE"
    ELSE LET result == UpperSeq(outcome.content)
         IN IF Contains(result, <<"NON_", "AGRICULTURE">>) THEN "NON_AGRICULTURE"
            ELSE IF Contains(result, <<"AGRICULTURE">>) THEN "AGRICULTURE"
            ELSE "NON_AGRICULTURE"

classify_intent_ultra_fast(outcome) == classify_with_openai(outcome)

\* the chunk store of vector_db/chunks.pkl, when it is loaded
ChunkStore == <<"thrips control in chilli">>

\* (faulty variant: the hits are taken without the valid index check, and
\* chunks[-1] is the last chunk)
BuildResultsUnfiltered(chunks, hits) ==
    IF chunks = <<>> \/ \E i \in 1..Len(hits) : hits[i].idx >= Len(chunks)
    THEN [raised |-> TRUE, results |-> <<>>]
    ELSE [raised |-> FALSE,
          results |-> [i \in 1..Len(hits) |->
                         [content |-> IF hits[i].idx < 0 THEN chunks[Len(chunks)]
                                      ELSE chunks[hits[i].idx + 1],
                          score |-> hits[i].score,
                          original_score |-> hits[i].score]]]

\* the result building of retrieve_ultra_fast: the hits of index.search with
\* a valid index, in the order of the search (raised: a hit lies outside the
\* chunk store, an IndexError)
BuildResults(chunks, hits) ==
    LET valid == SelectSeq(hits, LAMBDA h : h.idx >= 0)
    IN IF \E i \in 1..Len(valid) : valid[i].idx >= Len(chunks)
       THEN [raised |-> TRUE, results |-> <<>>]
       ELSE [raised |-> FALSE,
             results |-> [i \in 1..Len(valid) |->
                            [content |-> chunks[valid[i].idx + 1],
                             score |-> valid[i].score,
                             original_score |-> valid[i].score]]]

\* the answer the generation model gives to a prompt (temperature 0)
GeneratedAnswer(query, context) == <<"answer from", context, "to">> \o query

\* (faulty variant: a best score equal to the threshold is rejected)
NotAboveThreshold(score) == score <= similarity_threshold

\* original_score < self.similarity_threshold (line 249)
BelowThreshold(score) == score < similarity_threshold

\* generate_ultra_fast_answer for an agriculture query (lines 249-271):
\* [raised, llm, answer, response_type]; llm says whether the generation
\* model was called, call_raises what that call does
AnswerFromChunks(query, retrieved_chunks, call_raises) ==
    IF retrieved_chunks = <<>> \/ BelowThreshold(retrieved_chunks[1].original_score)
    THEN [raised |-> FALSE, llm |-> FALSE, answer |-> M2,
          response_type |-> "NO_RELEVANT_CHUNKS"]
    ELSE LET relevant_chunks ==
                 SelectSeq(retrieved_chunks,
                           LAMBDA c : c.original_score >= similarity_threshold)
         IN IF relevant_chunks = <<>>
            THEN [raised |-> FALSE, llm |-> FALSE, answer |-> M2,
                  response_type |-> "NO_RELEVANT_CHUNKS"]
            ELSE IF call_raises
            THEN [raised |-> TRUE, llm |-> TRUE, answer |-> <<>>,
                  response_type |-> "none"]
            ELSE [raised |-> FALSE, llm |-> TRUE,
                  answer |-> GeneratedAnswer(query, relevant_chunks[1].content),
                  response_type |-> "AGRICULTURE_WITH_CONTEXT"]

\* (faulty variant: the instant response for NON_AGRICULTURE is missing)
generate_ignoring_intent(query, intent, retrieved_chunks, call_raises) ==
    AnswerFromChunks(query, retrieved_chunks, call_raises)

\* generate_ultra_fast_answer (lines 242-271)
generate_ultra_fast_answer(query, intent, retrieved_chunks, call_raises) ==
    IF intent = "NON_AGRICULTURE"
    THEN [raised |-> FALSE, llm |-> FALSE, answer |-> M1,
          response_type |-> "NON_AGRICULTURE"]
    ELSE AnswerFromChunks(query, retrieved_chunks, call_raises)

\* -------------------------------------------------------------------------
\* PerformanceOptimizer (rag/.system/optimization_engine.py)
\* -------------------------------------------------------------------------
\* query_cache is a Python dict: a sequence of entries in insertion order,
\* each with its key.  access_count 0 stands for an entry without the field.

\* _get_query_hash: the normalised text (md5 taken as injective)
get_query_hash(query) == LowerSeq(query)

\* query.lower().strip().rstrip('?!.')
Normalized(query) == LowerSeq(query)

queries_similar(query1, query2) ==
    LET d == StrLen(query1) - StrLen(query2)
        words1 == WordSet(query1)
        words2 == WordSet(query2)
        overlap == Cardinality(words1 \cap words2)
        total_unique == Cardinality(words1 \cup words2)
    IN IF d > 5 \/ d < -5 THEN FALSE
       ELSE IF words1 = {} \/ words2 = {} THEN FALSE
       ELSE 5 * overlap >= 4 * total_unique

HashIndex(cache, h) ==
    IF \E i \in 1..Len(cache) : cache[i].hash = h
    THEN CHOOSE i \in 1..Len(cache) : cache[i].hash = h
    ELSE 0

FuzzyHits(cache, query) ==
    {i \in 1..Len(cache) : queries_similar(Normalized(query), Normalized(cache[i].query))}

is_cached(cache, query) ==
    HashIndex(cache, get_query_hash(query)) # 0 \/ FuzzyHits(cache, query) # {}

\* the entry get_cached_result serves: the exact key, else the first
\* similar entry in dict order, else 0
LookupIndex(cache, query) ==
    IF HashIndex(cache, get_query_hash(query)) # 0
    THEN HashIndex(cache, get_query_hash(query))
    ELSE IF FuzzyHits(cache, query) # {}
    THEN CHOOSE i \in FuzzyHits(cache, query) : \A j \in FuzzyHits(cache, query) : i <= j
    ELSE 0

\* the keys of the dict a call returns
CachedKeys ==
    {"question", "intent", "answer", "response_type", "retrieved_chunks",
     "num_chunks_used", "top_similarity", "performance", "cache_hit", "access_count"}
PipelineKeys ==
    {"question", "intent", "answer", "response_type", "retrieved_chunks",
     "num_chunks_used", "top_similarity", "performance"}
ContextualKeys ==
    PipelineKeys \cup {"cache_hit", "original_question", "corrected_question",
                       "vocabulary_corrections"}

NoResult ==
    [keys |-> {}, question |-> <<>>, intent |-> "none", answer |-> <<>>,
     response_type |-> "none", retrieved_chunks |-> <<>>, cache_hit |-> FALSE,
     original_question |-> <<>>, corrected_question |-> <<>>,
     vocabulary_corrections |-> {}]

\* the cache after get_cached_result(query): the served entry counts one
\* more access (and the cache is saved)
CacheAfterGet(cache, query) ==
    LET k == LookupIndex(cache, query)
    IN [i \in 1..Len(cache) |->
          IF i = k THEN [cache[i] EXCEPT !.access_count = @ + 1] ELSE cache[i]]

\* the dict get_cached_result(query) returns for a cached query
get_cached_result(cache, query) ==
    LET cached == cache[LookupIndex(cache, query)]
    IN [NoResult EXCEPT
          !.keys = CachedKeys,
          !.question = query,
          !.intent = cached.intent,
          !.answer = cached.answer,
          !.response_type = cached.response_type,
          !.retrieved_chunks = cached.retrieved_chunks,
          !.cache_hit = TRUE]

\* (faulty variant: the entry is written without the retrieved chunks)
CacheEntryWithoutChunks(query, result) ==
    [hash |-> get_query_hash(query), query |-> query, answer |-> result.answer,
     intent |-> result.intent, response_type |-> result.response_type,
     retrieved_chunks |-> <<>>, access_count |-> 0]

\* the entry cache_new_query writes
CacheEntry(query, result) ==
    [hash |-> get_query_hash(query), query |-> query, answer |-> result.answer,
     intent |-> result.intent, response_type |-> result.response_type,
     retrieved_chunks |-> result.retrieved_chunks, access_count |-> 0]

cache_new_query(cache, query, result) ==
    IF HashIndex(cache, get_query_hash(query)) = 0
    THEN Append(cache, CacheEntry(query, result))
    ELSE cache

\* -------------------------------------------------------------------------
\* Inputs of the pipeline
\* -------------------------------------------------------------------------
\* vocabulary.json of the pipeline runs
PipelineVocabulary ==
    << [term |-> <<"Dormulin">>, variations |-> << <<"dormolin">> >>] >>

\* the questions asked
Queries ==
    { <<"best", "phone", "for", "farm">>,
      <<"best", "phone", "for", "farm", "akre">>,
      <<"dormolin", "phone">>,
      <<"Dormulin", "phone">>,
      <<"fertilizer">>,
      <<"phone">>,
      <<"basil">> }

\* what a classification call does: a reply of the model, or an exception
ClassifyOutcomes ==
    { Reply(<<"AGRICULTURE">>), Reply(<<"NON_", "AGRICULTURE">>), Raised }

\* the similarity scores of index.search, in hundredths
Scores == {84, 85, 91}

\* what index.search(query_embedding, 1) returns: one hit, the sentinel -1
\* when the index holds no vector
SearchOutcomes ==
    { <<[idx |-> -1, score |-> -100]>> } \cup { <<[idx |-> 0, score |-> s]>> : s \in Scores }

\* -------------------------------------------------------------------------
\* State
\* -------------------------------------------------------------------------
VARIABLES
    vocabulary,          \* VocabularyCorrector.vocabulary
    index_loaded,        \* self.index is not None
    chunks,              \* self.chunks
    optimizer_ok,        \* self.performance_optimizer is not None
    query_cache,         \* PerformanceOptimizer.query_cache (and its file)
    ncalls,              \* calls started so far
    pc,                  \* position of the running call
    mode,                \* "contextual": process_contextual_query,
                         \* "direct": query_agricultural_knowledge
    question,            \* the argument of the call
    corrected_question,  \* corrected_question of process_contextual_query
    natural_intent,      \* natural_intent of process_contextual_query
    intent,              \* intent of query_agricultural_knowledge
    retrieved,           \* retrieved of query_agricultural_knowledge
    generated,           \* what generate_ultra_fast_answer returned
    result,              \* the dict the call returned
    stage_log,           \* the stages the call has run, with their inputs
    app,                 \* the last application of a function on its own
    threads,             \* the calls that run concurrently on the shared engine
    voice                \* VoiceInterface: the Streamlit session and process_audio

vars ==
    <<vocabulary, index_loaded, chunks, optimizer_ok, query_cache, ncalls, pc,
      mode, question, corrected_question, natural_intent, intent, retrieved,
      generated, result, stage_log, app, threads, voice>>

envVars == <<vocabulary, index_loaded, chunks, optimizer_ok>>
pipelineVars == <<query_cache, ncalls, pc, mode, question, corrected_question,
                  natural_intent, intent, retrieved, generated, result, stage_log>>

NoGenerated == [raised |-> FALSE, llm |-> FALSE, answer |-> <<>>, response_type |-> "none"]

\* one stage of a call: its name, the text it was given, whether it called a
\* model, and the model's outcome for a classification
Event(stage, arg, llm, outcome) ==
    [stage |-> stage, arg |-> arg, llm |-> llm, outcome |-> outcome]

NoOutcome == Reply(<<>>)

\* the threads that call process_contextual_query on the shared engine
Threads == {1, 2}

\* a thread outside a call: its position, the locals of the cache methods
\* (pos and size of a dict iteration, cached the entry found, count_read the
\* access_count read by +=), and what it has done so far
IdleThread ==
    [pc |-> "idle", query |-> <<>>, pos |-> 0, size |-> 0, cached |-> 0,
     stale |-> FALSE, count_read |-> 0, calls |-> 0, hits |-> 0,
     overwrote |-> FALSE]

\* what process_audio returns: (None, None, None, None), the speech
\* recognition error, or question, result, metrics and audio file
NoneReturned == [kind |-> "none", result |-> NoResult, audio_file |-> FALSE]
SttErrorReturned == [kind |-> "stt_error", result |-> NoResult, audio_file |-> FALSE]
NotReturned == [kind |-> "running", result |-> NoResult, audio_file |-> FALSE]

\* a Streamlit session before any voice query: st.session_state.ui_cache
\* (created by the text interface, or missing), voice_query_history, and the
\* locals of process_audio (cache_hit and the keys of result['performance'])
NewSession(ui_cache_present) ==
    [ui_cache_present |-> ui_cache_present, ui_cache |-> <<>>, history |-> {},
     cache_hit |-> FALSE, performance_keys |-> {}, returned |-> NotReturned]

\* the state after construction, but for the Streamlit session
InitBase ==
    /\ vocabulary = PipelineVocabulary
    /\ index_loaded \in BOOLEAN
    /\ chunks \in {<<>>, ChunkStore}
    /\ optimizer_ok \in BOOLEAN
    /\ query_cache = <<>>
    /\ ncalls = 0
    /\ pc = "idle"
    /\ mode = "none"
    /\ question = <<>>
    /\ corrected_question = <<>>
    /\ natural_intent = "none"
    /\ intent = "none"
    /\ retrieved = <<>>
    /\ generated = NoGenerated
    /\ result = NoResult
    /\ stage_log = <<>>
    /\ app = [fn |-> "none"]
    /\ threads = [t \in Threads |-> IdleThread]

Init ==
    /\ InitBase
    /\ voice = NewSession(FALSE)

\* -------------------------------------------------------------------------
\* The order of the statements of a call
\* -------------------------------------------------------------------------
\* (faulty variant: the answer is generated before retrieval)
NextStageGenerateFirst(stage) ==
    CASE stage = "begin_contextual" -> "correct"
      [] stage = "begin_direct" -> "qak_intent"
      [] stage = "correct" -> "classify_natural"
      [] stage = "classify_natural" -> "cache_check"
      [] stage = "cache_check" -> "qak_intent"
      [] stage = "qak_intent" -> "qak_generate"
      [] stage = "qak_generate" -> "qak_retrieve"
      [] stage = "qak_retrieve" -> "finish"

\* the statement after each one of process_contextual_query (lines 35, 43,
\* 46) and of query_agricultural_knowledge (lines 281, 292, 300)
NextStage(stage) ==
    CASE stage = "begin_contextual" -> "correct"
      [] stage = "begin_direct" -> "qak_intent"
      [] stage = "correct" -> "classify_natural"
      [] stage = "classify_natural" -> "cache_check"
      [] stage = "cache_check" -> "qak_intent"
      [] stage = "qak_intent" -> "qak_retrieve"
      [] stage = "qak_retrieve" -> "qak_generate"
      [] stage = "qak_generate" -> "finish"

\* (faulty variant: the raw question is processed)
processing_original(original, corrected) == original

\* processing_question = corrected_question (line 40)
processing_question(original, corrected) == corrected

\* the question query_agricultural_knowledge works on
QakQuestion ==
    IF mode = "contextual" THEN processing_question(question, corrected_question)
    ELSE question

\* -------------------------------------------------------------------------
\* Actions
\* -------------------------------------------------------------------------
\* a caller starts process_contextual_query(q) or
\* query_agricultural_knowledge(q)
Begin(q, m) ==
    /\ pc = "idle"
    /\ ncalls < MaxCalls
    /\ ncalls' = ncalls + 1
    /\ mode' = m
    /\ question' = q
    /\ pc' = NextStage(IF m = "contextual" THEN "begin_contextual" ELSE "begin_direct")
    /\ corrected_question' = <<>>
    /\ natural_intent' = "none"
    /\ intent' = "none"
    /\ retrieved' = <<>>
    /\ generated' = NoGenerated
    /\ result' = NoResult
    /\ stage_log' = <<>>
    /\ UNCHANGED <<envVars, query_cache, app, threads, voice>>

\* STEP 0: corrected_question, corrections = correct_agricultural_terms(question)
Correct ==
    /\ pc = "correct"
    /\ corrected_question' = correct_agricultural_terms(vocabulary, question)[1]
    /\ stage_log' = Append(stage_log, Event("correct", question, FALSE, NoOutcome))
    /\ pc' = NextStage("correct")
    /\ UNCHANGED <<envVars, query_cache, ncalls, mode, question, natural_intent,
                   intent, retrieved, generated, result, app, threads, voice>>

\* STEP 1: natural_intent = self.classify_intent_ultra_fast(processing_question)
ClassifyNatural ==
    /\ pc = "classify_natural"
    /\ \E o \in ClassifyOutcomes :
         /\ natural_intent' = classify_intent_ultra_fast(o)
         /\ stage_log' = Append(stage_log,
                Event("classify", processing_question(question, corrected_question), TRUE, o))
    /\ pc' = NextStage("classify_natural")
    /\ UNCHANGED <<envVars, query_cache, ncalls, mode, question, corrected_question,
                   intent, retrieved, generated, result, app, threads, voice>>

\* STEP 2: the cache is consulted; a cached result whose intent is the
\* natural intent is returned
CacheCheck ==
    /\ pc = "cache_check"
    /\ LET pq == processing_question(question, corrected_question)
       IN IF optimizer_ok /\ is_cached(query_cache, pq)
          THEN LET cached_result == get_cached_result(query_cache, pq)
               IN /\ query_cache' = CacheAfterGet(query_cache, pq)
                  /\ stage_log' = Append(stage_log, Event("cache_lookup", pq, FALSE, NoOutcome))
                  /\ IF cached_result.intent = natural_intent
                     THEN /\ result' = cached_result
                          /\ pc' = "done"
                     ELSE /\ result' = result
                          /\ pc' = NextStage("cache_check")
          ELSE /\ query_cache' = query_cache
               /\ stage_log' = IF optimizer_ok
                               THEN Append(stage_log, Event("cache_lookup", pq, FALSE, NoOutcome))
                               ELSE stage_log
               /\ result' = result
               /\ pc' = NextStage("cache_check")
    /\ UNCHANGED <<envVars, ncalls, mode, question, corrected_question, natural_intent,
                   intent, retrieved, generated, app, threads, voice>>

\* query_agricultural_knowledge, lines 277-288: the shortcut list, else the
\* model
QakIntent ==
    /\ pc = "qak_intent"
    /\ IF AnyKeyword(agriculture_keywords, QakQuestion)
       THEN /\ intent' = "AGRICULTURE"
            /\ stage_log' = Append(stage_log, Event("classify", QakQuestion, FALSE, NoOutcome))
       ELSE \E o \in ClassifyOutcomes :
              /\ intent' = classify_intent_ultra_fast(o)
              /\ stage_log' = Append(stage_log, Event("classify", QakQuestion, TRUE, o))
    /\ pc' = NextStage("qak_intent")
    /\ UNCHANGED <<envVars, query_cache, ncalls, mode, question, corrected_question,
                   natural_intent, retrieved, generated, result, app, threads, voice>>

\* (faulty variant: retrieval goes on without an index)
IndexAssumedLoaded(loaded) == FALSE

\* if not self.index (line 213)
IndexMissing(loaded) == ~loaded

\* query_agricultural_knowledge, lines 290-296, with retrieve_ultra_fast
QakRetrieve ==
    /\ pc = "qak_retrieve"
    /\ IF intent = "AGRICULTURE"
       THEN IF IndexMissing(index_loaded)
            THEN /\ retrieved' = <<>>
                 /\ stage_log' = Append(stage_log, Event("retrieve", QakQuestion, FALSE, NoOutcome))
                 /\ pc' = NextStage("qak_retrieve")
            ELSE \/ \* the embedding call raises
                    /\ retrieved' = retrieved
                    /\ stage_log' = Append(stage_log, Event("retrieve", QakQuestion, TRUE, Raised))
                    /\ pc' = "raised"
                 \/ \E hits \in SearchOutcomes :
                      LET results == BuildResults(chunks, hits)
                      IN /\ stage_log' = Append(stage_log,
                                Event("retrieve", QakQuestion, TRUE, NoOutcome))
                         /\ IF results.raised
                            THEN retrieved' = retrieved /\ pc' = "raised"
                            ELSE retrieved' = results.results /\ pc' = NextStage("qak_retrieve")
       ELSE /\ retrieved' = <<>>
            /\ stage_log' = stage_log
            /\ pc' = NextStage("qak_retrieve")
    /\ UNCHANGED <<envVars, query_cache, ncalls, mode, question, corrected_question,
                   natural_intent, intent, generated, result, app, threads, voice>>

\* query_agricultural_knowledge, lines 298-301
QakGenerate ==
    /\ pc = "qak_generate"
    /\ \E call_raises \in BOOLEAN :
         LET g == generate_ultra_fast_answer(QakQuestion, intent, retrieved, call_raises)
         IN /\ generated' = g
            /\ stage_log' = Append(stage_log, Event("generate", QakQuestion, g.llm, NoOutcome))
            /\ pc' = IF g.raised THEN "raised" ELSE NextStage("qak_generate")
    /\ UNCHANGED <<envVars, query_cache, ncalls, mode, question, corrected_question,
                   natural_intent, intent, retrieved, result, app, threads, voice>>

\* the dict query_agricultural_knowledge returns (lines 310-324)
PipelineResult ==
    [NoResult EXCEPT
       !.keys = PipelineKeys,
       !.question = QakQuestion,
       !.intent = intent,
       !.answer = generated.answer,
       !.response_type = generated.response_type,
       !.retrieved_chunks = retrieved]

\* the end of the call: query_agricultural_knowledge returns; in
\* process_contextual_query the result is cached (lines 76-80) and gets the
\* correction fields (lines 83-85)
Finish ==
    /\ pc = "finish"
    /\ IF mode = "direct"
       THEN /\ result' = PipelineResult
            /\ query_cache' = query_cache
            /\ stage_log' = stage_log
       ELSE LET pq == processing_question(question, corrected_question)
                r == [PipelineResult EXCEPT !.cache_hit = FALSE]
            IN /\ query_cache' = IF optimizer_ok THEN cache_new_query(query_cache, pq, r)
                                 ELSE query_cache
               /\ stage_log' = IF optimizer_ok
                               THEN Append(stage_log, Event("cache_insert", pq, FALSE, NoOutcome))
                               ELSE stage_log
               /\ result' = [r EXCEPT
                    !.keys = ContextualKeys,
                    !.original_question = question,
                    !.corrected_question = corrected_question,
                    !.vocabulary_corrections =
                        correct_agricultural_terms(vocabulary, question)[2]]
    /\ pc' = "done"
    /\ UNCHANGED <<envVars, ncalls, mode, question, corrected_question, natural_intent,
                   intent, retrieved, generated, app, threads, voice>>

\* the caller takes the result, or the exception
Return ==
    /\ pc \in {"done", "raised"}
    /\ pc' = "idle"
    /\ mode' = "none"
    /\ question' = <<>>
    /\ corrected_question' = <<>>
    /\ natural_intent' = "none"
    /\ intent' = "none"
    /\ retrieved' = <<>>
    /\ generated' = NoGenerated
    /\ result' = NoResult
    /\ stage_log' = <<>>
    /\ UNCHANGED <<envVars, query_cache, ncalls, app, threads, voice>>

Next ==
    \/ \E q \in Queries, m \in {"contextual", "direct"} : Begin(q, m)
    \/ Correct
    \/ ClassifyNatural
    \/ CacheCheck
    \/ QakIntent
    \/ QakRetrieve
    \/ QakGenerate
    \/ Finish
    \/ Return

Spec == Init /\ [][Next]_vars

\* -------------------------------------------------------------------------
\* The functions on their own: each action applies one function of the code
\* to inputs drawn from bounded sets and records the application in app
\* -------------------------------------------------------------------------
\* all sequences over S of length at most n
RECURSIVE SeqsUpTo(_, _)
SeqsUpTo(S, n) ==
    IF n = 0 THEN {<<>>}
    ELSE LET shorter == SeqsUpTo(S, n - 1)
         IN shorter \cup {Append(t, e) : t \in shorter, e \in S}

\* the texts given to the corrector
Texts == SeqsUpTo(TableWords, MaxTextLen)

\* a run of whitespace, which holds no word character, and the texts that
\* hold nothing else
Blank == "  "
BlankTexts == {<<>>, <<Blank>>}

\* the items of a vocabulary table: a correct term with one variation
TableTerms == {<<"b">>, <<"c">>, <<"A", "b">>}
TableVariations == {<<"a">>, <<"b">>, <<"a", "b">>}
TableItems ==
    {[term |-> t, variations |-> <<v>>] : t \in TableTerms, v \in TableVariations}

\* the vocabulary tables, the empty one (vocabulary.json missing) included
Vocabularies == SeqsUpTo(TableItems, MaxTerms)

\* every outcome of a classification call
Replies == SeqsUpTo(ReplyTokens, MaxReplyLen)
AllClassifyOutcomes == {Reply(c) : c \in Replies} \cup {Raised}

\* the retrieved lists given to answer generation, in any order of scores
RetrievedLists ==
    SeqsUpTo({[content |-> ChunkStore[1], score |-> sc, original_score |-> sc] :
                 sc \in Scores}, MaxChunks)

InitFn ==
    /\ Init
    /\ index_loaded
    /\ chunks = ChunkStore
    /\ optimizer_ok

\* what json.load returns for vocabulary.json: the type of the top value
\* (top), of a category's value (category) and of a term's value
\* (variations), and the (term, variations) items as far as they can be
\* iterated (the characters of a string, the elements of a list)
Json(top, category, variations, items) ==
    [top |-> top, category |-> category, variations |-> variations, items |-> items]

EmptyDict == Json("dict", "dict", "list", <<>>)

\* vocabulary.json at startup: absent, not JSON, or JSON of some shape
VocabularyFiles ==
    { [state |-> "absent", json |-> EmptyDict],
      [state |-> "unparsable", json |-> EmptyDict],
      [state |-> "parsed", json |-> EmptyDict],
      [state |-> "parsed", json |-> Json("list", "none", "none", <<>>)],
      [state |-> "parsed",
       json |-> Json("dict", "list", "none", <<[term |-> <<"c">>, variations |-> <<>>]>>)],
      [state |-> "parsed",
       json |-> Json("dict", "dict", "number", <<[term |-> <<"c">>, variations |-> <<>>]>>)],
      [state |-> "parsed",
       json |-> Json("dict", "dict", "string",
                     <<[term |-> <<"c">>, variations |-> << <<"a">>, <<"b">> >>]>>)],
      [state |-> "parsed",
       json |-> Json("dict", "dict", "list",
                     <<[term |-> <<"c">>, variations |-> << <<"a">> >>]>>)] }

\* the file holds category -> {term -> list of variations}
WellShaped(file) ==
    /\ file.state = "parsed"
    /\ file.json.top = "dict"
    /\ file.json.items # <<>> => (file.json.category = "dict" /\ file.json.variations = "list")

\* _load_vocabulary: {} when open or json.load raises
load_vocabulary(file) ==
    IF file.state \in {"absent", "unparsable"} THEN EmptyDict ELSE file.json

\* VocabularyCorrector(): _load_vocabulary, then _build_correction_map, which
\* calls .items() on the value and on every category and iterates the value
\* of every term (raised: AttributeError or TypeError)
VocabularyCorrector(file) ==
    LET json == load_vocabulary(file)
    IN IF json.top # "dict"
       THEN [raised |-> TRUE, vocabulary |-> <<>>]
       ELSE IF json.items = <<>>
       THEN [raised |-> FALSE, vocabulary |-> <<>>]
       ELSE IF json.category # "dict" \/ json.variations \notin {"list", "string"}
       THEN [raised |-> TRUE, vocabulary |-> <<>>]
       ELSE [raised |-> FALSE, vocabulary |-> json.items]

ApplyConstruct(file, q) ==
    /\ app.fn = "none"
    /\ LET corrector == VocabularyCorrector(file)
       IN app' = [fn |-> "VocabularyCorrector", file |-> file, query |-> q,
                  raised |-> corrector.raised,
                  out |-> IF corrector.raised THEN <<q, {}>>
                          ELSE correct_agricultural_terms(corrector.vocabulary, q)]
    /\ UNCHANGED <<envVars, pipelineVars, threads, voice>>

ApplyCorrect(v, q) ==
    /\ app.fn = "none"
    /\ app' = [fn |-> "correct_query", vocabulary |-> v, query |-> q,
               out |-> correct_query(v, q)]
    /\ UNCHANGED <<envVars, pipelineVars, threads, voice>>

ApplyCorrectTerms(v, q) ==
    /\ app.fn = "none"
    /\ app' = [fn |-> "correct_agricultural_terms", vocabulary |-> v, query |-> q,
               out |-> correct_agricultural_terms(v, q)]
    /\ UNCHANGED <<envVars, pipelineVars, threads, voice>>

ApplyClassify(o) ==
    /\ app.fn = "none"
    /\ app' = [fn |-> "classify_with_openai", outcome |-> o,
               out |-> classify_with_openai(o)]
    /\ UNCHANGED <<envVars, pipelineVars, threads, voice>>

ApplyGenerate(q, i, r, call_raises) ==
    /\ app.fn = "none"
    /\ app' = [fn |-> "generate_ultra_fast_answer", query |-> q, intent |-> i,
               retrieved |-> r, call_raises |-> call_raises,
               out |-> generate_ultra_fast_answer(q, i, r, call_raises)]
    /\ UNCHANGED <<envVars, pipelineVars, threads, voice>>

\* -------------------------------------------------------------------------
\* The latency values of an envelope, in milliseconds
\* -------------------------------------------------------------------------
\* what a stage of a call can take on the clock
Durations == {0, 200, 700, 1300}

\* what the statements outside the three stages can take
OtherDurations == {0, 2}

\* the durations time.time() measures in query_agricultural_knowledge: the
\* three stages (the keyword shortcut takes no millisecond) and the whole
\* call
Measured(shortcut, d_intent, d_retrieval, d_generation, d_other) ==
    LET actual_intent == IF shortcut THEN 0 ELSE d_intent
    IN [total_time |-> actual_intent + d_retrieval + d_generation + d_other,
        intent_time |-> actual_intent,
        retrieval_time |-> d_retrieval,
        generation_time |-> d_generation]

\* 'performance' of query_agricultural_knowledge (lines 281-308, 317-322):
\* intent_time is 0.001 on the shortcut, total_time is cut to 1.4
qak_performance(shortcut, measured) ==
    [total_time |-> IF measured.total_time > 1400 THEN 1400 ELSE measured.total_time,
     intent_time |-> IF shortcut THEN 1 ELSE measured.intent_time,
     retrieval_time |-> measured.retrieval_time,
     generation_time |-> measured.generation_time]

\* total and its shares 0.15, 0.65 and 0.20, rounded down to a millisecond
SplitTime(t) ==
    [total_time |-> t,
     intent_time |-> (t * 15) \div 100,
     retrieval_time |-> (t * 65) \div 100,
     generation_time |-> (t * 20) \div 100]

\* random.uniform of process_contextual_query (lines 66-69): ends and an
\* inner value of each range
FirstRunDraws(actual_time) ==
    IF actual_time > 1400 THEN {1400, 1503, 1620} ELSE {800, 1233, 1547}

\* 'performance' of a first run of process_contextual_query (lines 60-75)
first_run_performance(performance, fabricated_first_time) ==
    SplitTime(fabricated_first_time)

\* random.uniform of get_cached_result (lines 90-105), by access_count
CachedDraws(access_count) ==
    CASE access_count = 1 -> {900, 1047, 1200}
      [] access_count = 2 -> {600, 733, 900}
      [] access_count = 3 -> {300, 451, 600}
      [] access_count = 4 -> {100, 177, 300}
      [] OTHER -> {50, 93, 150}

\* 'performance' of get_cached_result (lines 117-122)
cached_performance(realistic_time) == SplitTime(realistic_time)

\* the access counts of a served entry
AccessCounts == 1..5

\* what a cache hit takes on the clock: no stage runs
MeasuredHit(d_other) ==
    [total_time |-> d_other, intent_time |-> 0, retrieval_time |-> 0,
     generation_time |-> 0]

ApplyQakTiming(shortcut, d_intent, d_retrieval, d_generation, d_other) ==
    /\ app.fn = "none"
    /\ LET measured == Measured(shortcut, d_intent, d_retrieval, d_generation, d_other)
       IN app' = [fn |-> "query_agricultural_knowledge", shortcut |-> shortcut,
                  measured |-> measured,
                  out |-> qak_performance(shortcut, measured)]
    /\ UNCHANGED <<envVars, pipelineVars, threads, voice>>

ApplyFirstRunTiming(shortcut, d_intent, d_retrieval, d_generation, d_other) ==
    /\ app.fn = "none"
    /\ LET measured == Measured(shortcut, d_intent, d_retrieval, d_generation, d_other)
           performance == qak_performance(shortcut, measured)
       IN \E fabricated_first_time \in FirstRunDraws(performance.total_time) :
             app' = [fn |-> "process_contextual_query", shortcut |-> shortcut,
                     measured |-> measured,
                     out |-> first_run_performance(performance, fabricated_first_time)]
    /\ UNCHANGED <<envVars, pipelineVars, threads, voice>>

ApplyCachedTiming(access_count, d_other) ==
    /\ app.fn = "none"
    /\ \E realistic_time \in CachedDraws(access_count) :
          app' = [fn |-> "get_cached_result", access_count |-> access_count,
                  measured |-> MeasuredHit(d_other),
                  out |-> cached_performance(realistic_time)]
    /\ UNCHANGED <<envVars, pipelineVars, threads, voice>>

\* -------------------------------------------------------------------------
\* retrieve_ultra_fast on its own, for every top_k
\* -------------------------------------------------------------------------
\* a chunk store with a chunk for every vector of the index
IndexedChunks == <<"thrips control in chilli", "aphids on tomato", "banana stem borer">>

\* the hit index.search gives where it has no further vector
SentinelHit == [idx |-> -1, score |-> -100]

\* what index.search(query_embedding, top_k) can return on an inner-product
\* index of up to Len(IndexedChunks) vectors: top_k hits, the vectors found
\* first, each once, by descending score, then sentinels
SearchResults(top_k) ==
    LET Hits == {[idx |-> i, score |-> sc] :
                    i \in 0..(Len(IndexedChunks) - 1), sc \in Scores} \cup {SentinelHit}
    IN {h \in [1..top_k -> Hits] :
          \A i \in 1..top_k, j \in 1..top_k :
              i < j => /\ h[i].score >= h[j].score
                       /\ h[i].idx < 0 => h[j].idx < 0
                       /\ h[i].idx >= 0 => h[i].idx # h[j].idx}

\* retrieve_ultra_fast(query, top_k) with the index loaded and the embedding
\* call answered, given what index.search returns
retrieve_ultra_fast(chunk_store, top_k, hits) == BuildResults(chunk_store, hits)

ApplyRetrieve(top_k, hits) ==
    /\ app.fn = "none"
    /\ app' = [fn |-> "retrieve_ultra_fast", top_k |-> top_k, hits |-> hits,
               chunks |-> IndexedChunks,
               out |-> retrieve_ultra_fast(IndexedChunks, top_k, hits)]
    /\ UNCHANGED <<envVars, pipelineVars, threads, voice>>

\* -------------------------------------------------------------------------
\* IntentClassifier (rag/intent_classifier.py). A query is the set of the
\* words it mentions: every test of the classifier is 'keyword in query'.
\* Confidences are counted in units of 1/2000, in which every weight * 0.1,
\* every weight * 0.15, the boosts and the thresholds are whole numbers.
\* -------------------------------------------------------------------------
ConfidenceOne == 2000

\* keyword -> weight (in hundredths), some keys of the two tables
agricultural_keywords == << <<"fertilizer", 90>>, <<"spray", 60>> >>

non_agricultural_keywords ==
    << <<"smartphone", 90>>, <<"laptop", 90>>, <<"movie", 90>>,
       <<"computer", 80>>, <<"treatment", 40>> >>

\* the keys of the product and crop databases
product_database == {"dormulin", "zetol"}
crop_database == {"chilli"}

problem_keywords == {"disease", "pest", "deficiency", "control", "treatment"}
dosage_keywords == {"dosage", "application", "rate", "how much", "quantity"}

classification_rules ==
    [agriculture_threshold |-> 1200,
     non_agriculture_threshold |-> 1400,
     product_mention_boost |-> 600,
     crop_mention_boost |-> 400]

IntentWords ==
    product_database \cup crop_database \cup {"Dormulin"}
      \cup {agricultural_keywords[i][1] : i \in 1..Len(agricultural_keywords)}
      \cup {non_agricultural_keywords[i][1] : i \in 1..Len(non_agricultural_keywords)}

IntentQueries == SUBSET IntentWords

\* query.lower().strip(), whitespace and punctuation made single spaces
preprocess_query(query) == {Lower(w) : w \in query}

extract_agricultural_entities(query) ==
    [product |-> product_database \cap query,
     crop |-> crop_database \cap query,
     keyword |-> {agricultural_keywords[i][1] : i \in 1..Len(agricultural_keywords)}
                    \cap query]

\* the sum of the weights of the keywords of a table found in the query
RECURSIVE SumWeights(_, _)
SumWeights(table, query) ==
    IF table = <<>> THEN 0
    ELSE (IF Head(table)[1] \in query THEN Head(table)[2] ELSE 0)
         + SumWeights(Tail(table), query)

MinOf(x, y) == IF x < y THEN x ELSE y

calculate_agricultural_confidence(query, entities) ==
    MinOf(2 * SumWeights(agricultural_keywords, query)
            + Cardinality(entities.product) * classification_rules.product_mention_boost
            + Cardinality(entities.crop) * classification_rules.crop_mention_boost,
          ConfidenceOne)

calculate_non_agricultural_confidence(query) ==
    MinOf(3 * SumWeights(non_agricultural_keywords, query), ConfidenceOne)

determine_primary_intent(ag_confidence, non_ag_confidence) ==
    IF /\ non_ag_confidence >= classification_rules.non_agriculture_threshold
       /\ non_ag_confidence > ag_confidence
    THEN "NON_AGRICULTURE"
    ELSE IF ag_confidence >= classification_rules.agriculture_threshold
    THEN "AGRICULTURE_WITH_CONTEXT"
    ELSE IF ag_confidence > non_ag_confidence
    THEN "AGRICULTURE_WITH_CONTEXT"
    ELSE "NON_AGRICULTURE"

assess_context_availability(query, entities) ==
    IF entities.product # {} THEN TRUE
    ELSE IF entities.crop # {} /\ problem_keywords \cap query # {} THEN TRUE
    ELSE IF dosage_keywords \cap query # {} THEN entities.product # {}
    ELSE FALSE

classify_intent(query) ==
    LET processed_query == preprocess_query(query)
        agricultural_entities == extract_agricultural_entities(processed_query)
        agricultural_confidence ==
            calculate_agricultural_confidence(processed_query, agricultural_entities)
        non_agricultural_confidence ==
            calculate_non_agricultural_confidence(processed_query)
        primary == determine_primary_intent(agricultural_confidence,
                                            non_agricultural_confidence)
        context_availability ==
            IF primary = "NON_AGRICULTURE" THEN FALSE
            ELSE assess_context_availability(processed_query, agricultural_entities)
    IN [intent |-> IF primary = "NON_AGRICULTURE" THEN primary
                   ELSE IF context_availability THEN "AGRICULTURE_WITH_CONTEXT"
                   ELSE "AGRICULTURE_WITHOUT_CONTEXT",
        confidence |-> IF agricultural_confidence > non_agricultural_confidence
                       THEN agricultural_confidence
                       ELSE non_agricultural_confidence,
        agricultural_entities |-> agricultural_entities,
        context_availability |-> context_availability]

ApplyClassifyIntent(q) ==
    /\ app.fn = "none"
    /\ app' = [fn |-> "classify_intent", query |-> q, out |-> classify_intent(q)]
    /\ UNCHANGED <<envVars, pipelineVars, threads, voice>>

\* -------------------------------------------------------------------------
\* The normalisation inside _get_query_hash, on queries written character by
\* character (get_query_hash above is its restriction to texts of words
\* without punctuation)
\* -------------------------------------------------------------------------
MaxChars == 4

Chars == {"a", "A", " ", "?", "."}

CharTexts == SeqsUpTo(Chars, MaxChars)

\* str.lower()
lower(s) == [i \in 1..Len(s) |-> IF s[i] = "A" THEN "a" ELSE s[i]]

\* str.lstrip(chars) and str.rstrip(chars)
RECURSIVE lstrip(_, _)
lstrip(s, chars) ==
    IF s # <<>> /\ Head(s) \in chars THEN lstrip(Tail(s), chars) ELSE s

RECURSIVE rstrip(_, _)
rstrip(s, chars) ==
    IF s # <<>> /\ s[Len(s)] \in chars THEN rstrip(SubSeq(s, 1, Len(s) - 1), chars) ELSE s

\* str.strip()
strip(s) == rstrip(lstrip(s, {" "}), {" "})

\* ' '.join(s.split()): no space at either end, every run of spaces one space
RECURSIVE CollapseRuns(_)
CollapseRuns(s) ==
    IF Len(s) < 2 THEN s
    ELSE IF s[1] = " " /\ s[2] = " " THEN CollapseRuns(Tail(s))
    ELSE <<s[1]>> \o CollapseRuns(Tail(s))

join_split(s) == CollapseRuns(strip(s))

\* lines 51-55 of _get_query_hash: the text that is hashed
normalized(query) == rstrip(join_split(strip(lower(query))), {"?", "!", "."})

ApplyQueryHash(q) ==
    /\ app.fn = "none"
    /\ app' = [fn |-> "_get_query_hash", query |-> q, out |-> normalized(q)]
    /\ UNCHANGED <<envVars, pipelineVars, threads, voice>>

NextFn ==
    \/ /\ app.fn = "none"
       /\ \E v \in Vocabularies, q \in Texts : ApplyCorrect(v, q)
    \/ /\ app.fn = "none"
       /\ \E v \in Vocabularies, q \in Texts \cup BlankTexts : ApplyCorrectTerms(v, q)
    \/ /\ app.fn = "none"
       /\ \E o \in AllClassifyOutcomes : ApplyClassify(o)
    \/ /\ app.fn = "none"
       /\ \E i \in {"AGRICULTURE", "NON_AGRICULTURE"}, r \in RetrievedLists,
             call_raises \in BOOLEAN :
             ApplyGenerate(<<"basil">>, i, r, call_raises)
    \/ /\ app.fn = "none"
       /\ \E shortcut \in BOOLEAN, d_intent \in Durations, d_retrieval \in Durations,
             d_generation \in Durations, d_other \in OtherDurations :
             ApplyQakTiming(shortcut, d_intent, d_retrieval, d_generation, d_other)
    \/ /\ app.fn = "none"
       /\ \E shortcut \in BOOLEAN, d_intent \in Durations, d_retrieval \in Durations,
             d_generation \in Durations, d_other \in OtherDurations :
             ApplyFirstRunTiming(shortcut, d_intent, d_retrieval, d_generation, d_other)
    \/ /\ app.fn = "none"
       /\ \E access_count \in AccessCounts, d_other \in OtherDurations :
             ApplyCachedTiming(access_count, d_other)
    \/ /\ app.fn = "none"
       /\ \E top_k \in 1..MaxTopK : \E hits \in SearchResults(top_k) :
             ApplyRetrieve(top_k, hits)
    \/ /\ app.fn = "none"
       /\ \E file \in VocabularyFiles, q \in Texts : ApplyConstruct(file, q)
    \/ /\ app.fn = "none"
       /\ \E q \in IntentQueries : ApplyClassifyIntent(q)
    \/ /\ app.fn = "none"
       /\ \E q \in CharTexts : ApplyQueryHash(q)

SpecFn == InitFn /\ [][NextFn]_vars

\* -------------------------------------------------------------------------
\* Properties
\* -------------------------------------------------------------------------
\* the positions of the stage_log that hold a given stage
StageAt(stage) == {i \in 1..Len(stage_log) : stage_log[i].stage = stage}

\* a call has returned a result the pipeline computed in this call
FreshResult == pc = "done" /\ ~result.cache_hit

\* a call has returned a result
Returned == pc = "done"

\* C1: a result the pipeline computed for intent NON_AGRICULTURE (by
\* query_agricultural_knowledge, directly or on a cache miss of
\* process_contextual_query) was computed without retrieve_ultra_fast and
\* without a generation model call, holds no retrieved chunks, and is exactly
\* message M1 with response type NON_AGRICULTURE.
C1_NonAgricultureShortCircuit ==
    (FreshResult /\ result.intent = "NON_AGRICULTURE") =>
        /\ StageAt("retrieve") = {}
        /\ result.retrieved_chunks = <<>>
        /\ result.answer = M1
        /\ result.response_type = "NON_AGRICULTURE"
        /\ \A i \in StageAt("generate") : ~stage_log[i].llm

C1_Witness ==
    /\ FreshResult
    /\ mode = "contextual"
    /\ result.intent = "NON_AGRICULTURE"
    /\ index_loaded
    /\ chunks # <<>>
    /\ StageAt("generate") # {}

\* C2: for intent AGRICULTURE, generate_ultra_fast_answer given a retrieved
\* list that is empty or whose first score is strictly below 0.85 returns
\* exactly M2 with type NO_RELEVANT_CHUNKS and calls no model; with a first
\* score equal to 0.85 it does not take that branch (the model is called).
C2_ThresholdGate ==
    (app.fn = "generate_ultra_fast_answer" /\ app.intent = "AGRICULTURE") =>
        /\ (app.retrieved = <<>> \/ app.retrieved[1].original_score < 85) =>
               /\ ~app.out.raised
               /\ ~app.out.llm
               /\ app.out.answer = M2
               /\ app.out.response_type = "NO_RELEVANT_CHUNKS"
        /\ (app.retrieved # <<>> /\ app.retrieved[1].original_score = 85) =>
               /\ app.out.llm
               /\ app.out.response_type # "NO_RELEVANT_CHUNKS"

C2_Witness ==
    /\ app.fn = "generate_ultra_fast_answer"
    /\ app.intent = "AGRICULTURE"
    /\ Len(app.retrieved) = 2
    /\ app.retrieved[1].original_score = 84
    /\ app.retrieved[2].original_score = 91
    /\ app.out.answer = M2

\* the response type that belongs to an intent and a retrieved list
ExpectedResponseType(i, r) ==
    IF i = "NON_AGRICULTURE" THEN "NON_AGRICULTURE"
    ELSE IF r # <<>> /\ r[1].original_score >= 85 THEN "AGRICULTURE_WITH_CONTEXT"
    ELSE "NO_RELEVANT_CHUNKS"

C4_ProductTermWins ==
    ( /\ Returned
      /\ mode = "contextual"
      /\ AnyKeyword(product_terms, corrected_question)
      /\ AnyKeyword(non_agri_patterns, corrected_question) ) =>
        result.intent = "AGRICULTURE"

\* the last classification stage of the call: the one of
\* query_agricultural_knowledge when the pipeline ran
LastClassify ==
    stage_log[CHOOSE i \in StageAt("classify") : \A j \in StageAt("classify") : j <= i]

ShortcutKeywords ==
    {"dormulin", "zetol", "tracs", "akre", "trail", "actin",
     "chilli", "tomato", "banana", "thrips", "aphids", "borer"}

SpellsNonAgriculture(c) ==
    \E i \in 1..(Len(c) - 1) :
        Upper(c[i]) = "NON_" /\ Upper(c[i + 1]) = "AGRICULTURE"
SpellsAgriculture(c) == \E i \in 1..Len(c) : Upper(c[i]) = "AGRICULTURE"

\* C6: _classify_with_openai returns one of two values: NON_AGRICULTURE
\* when the upper-cased reply holds NON_AGRICULTURE, else AGRICULTURE when it
\* holds AGRICULTURE, else NON_AGRICULTURE; an exception of the client or of
\* the call gives NON_AGRICULTURE.
C6_ClassifyTwoValued ==
    (app.fn = "classify_with_openai") =>
        /\ app.out \in {"AGRICULTURE", "NON_AGRICULTURE"}
        /\ app.outcome.raised => app.out = "NON_AGRICULTURE"
        /\ (~app.outcome.raised /\ SpellsNonAgriculture(app.outcome.content)) =>
               app.out = "NON_AGRICULTURE"
        /\ (~app.outcome.raised /\ ~SpellsNonAgriculture(app.outcome.content)) =>
               (app.out = "AGRICULTURE" <=> SpellsAgriculture(app.outcome.content))

C6_Witness ==
    /\ app.fn = "classify_with_openai"
    /\ app.outcome = Reply(<<"non_", "agriculture">>)
    /\ app.out = "NON_AGRICULTURE"

\* the classification model calls of the call
ClassificationCalls == {i \in StageAt("classify") : stage_log[i].llm}

\* C7: one process_contextual_query call makes no classification model call
\* when the corrected query matches a keyword list and exactly one when it
\* matches none.
C7_AtMostOneClassificationCall ==
    (Returned /\ mode = "contextual") =>
        Cardinality(ClassificationCalls) =
            IF AnyKeyword(agriculture_keywords \cup agri_patterns \cup non_agri_patterns,
                          corrected_question)
            THEN 0 ELSE 1

\* C8: correcting a corrected text changes nothing, for every text and
\* every vocabulary table.
C8_CorrectionIdempotent ==
    (app.fn = "correct_query") =>
        correct_query(app.vocabulary, app.out) = app.out

\* the rank of a stage in the order correction, classification, retrieval,
\* generation (0: not one of the four)
StageRank(stage) ==
    CASE stage = "correct" -> 1
      [] stage = "classify" -> 2
      [] stage = "retrieve" -> 3
      [] stage = "generate" -> 4
      [] OTHER -> 0

Ranked == {i \in 1..Len(stage_log) : StageRank(stage_log[i].stage) > 0}

\* C9: within a process_contextual_query call no stage runs after a later
\* one; the call starts with the correction, a retrieval or generation comes
\* after a classification, and the generation for an AGRICULTURE query after
\* its retrieval.
C9_StageOrder ==
    (mode = "contextual") =>
        /\ \A i, j \in Ranked :
               i < j => StageRank(stage_log[i].stage) <= StageRank(stage_log[j].stage)
        /\ \A i \in Ranked :
               stage_log[i].stage # "correct" => \E j \in StageAt("correct") : j < i
        /\ \A i \in StageAt("retrieve") \cup StageAt("generate") :
               \E j \in StageAt("classify") : j < i
        /\ \A i \in StageAt("generate") :
               intent = "AGRICULTURE" => \E j \in StageAt("retrieve") : j < i

C9_Witness ==
    /\ FreshResult
    /\ mode = "contextual"
    /\ StageAt("correct") # {}
    /\ StageAt("retrieve") # {}
    /\ \E i \in StageAt("generate") : stage_log[i].llm
    /\ Cardinality(ClassificationCalls) = 2

\* C10: in process_contextual_query the classification, the cache lookup
\* and insert, the retrieval and the generation get the corrected text; the
\* raw question goes to the correction and into original_question only.
C10_CorrectedTextDownstream ==
    (mode = "contextual" /\ stage_log # <<>>) =>
        LET corrected == correct_query(vocabulary, question)
        IN /\ \A i \in 1..Len(stage_log) :
                  stage_log[i].arg =
                      IF stage_log[i].stage = "correct" THEN question ELSE corrected
           /\ FreshResult =>
                  /\ result.question = corrected
                  /\ result.corrected_question = corrected
                  /\ result.original_question = question
           /\ (Returned /\ result.cache_hit) => result.question = corrected

C10_Witness ==
    /\ FreshResult
    /\ mode = "contextual"
    /\ question # correct_query(vocabulary, question)
    /\ StageAt("cache_lookup") # {}
    /\ StageAt("retrieve") # {}
    /\ StageAt("cache_insert") # {}

\* -------------------------------------------------------------------------
\* The pipeline without a cache, under a fixed behaviour of the model and of
\* the index
\* -------------------------------------------------------------------------
\* a fixed classification model: what it replies to a text
FixedReply(q) ==
    IF \E i \in 1..Len(q) : q[i] = "phone"
    THEN Reply(<<"NON_", "AGRICULTURE">>)
    ELSE Reply(<<"AGRICULTURE">>)

\* a fixed index: what index.search returns for the embedding of a text
FixedSearch(q) == <<[idx |-> 0, score |-> 91]>>

\* the answer, intent, response type and retrieved chunks a call returns
Content(r) == <<r.answer, r.intent, r.response_type, r.retrieved_chunks>>

\* query_agricultural_knowledge(q) under the fixed behaviour: what an engine
\* without performance_optimizer computes for q
UncachedResult(q) ==
    LET i == IF AnyKeyword(agriculture_keywords, q) THEN "AGRICULTURE"
             ELSE classify_intent_ultra_fast(FixedReply(q))
        b == IF i = "AGRICULTURE" /\ index_loaded
             THEN BuildResults(chunks, FixedSearch(q))
             ELSE [raised |-> FALSE, results |-> <<>>]
        g == generate_ultra_fast_answer(q, i, b.results, FALSE)
    IN [raised |-> b.raised, intent |-> i, answer |-> g.answer,
        response_type |-> g.response_type, retrieved_chunks |-> b.results]

\* every entry of the cache holds what the fixed behaviour computes for the
\* text it was written for
CacheFollowsFixed ==
    \A k \in 1..Len(query_cache) :
        /\ ~UncachedResult(query_cache[k].query).raised
        /\ Content(query_cache[k]) = Content(UncachedResult(query_cache[k].query))

\* every model call and index search of the running call did what the fixed
\* behaviour does
CallFollowsFixed ==
    /\ \A i \in StageAt("classify") :
          stage_log[i].llm => stage_log[i].outcome = FixedReply(stage_log[i].arg)
    /\ \A i \in StageAt("retrieve") :
          stage_log[i].llm =>
              LET b == BuildResults(chunks, FixedSearch(stage_log[i].arg))
              IN /\ stage_log[i].outcome = NoOutcome
                 /\ ~b.raised
                 /\ retrieved = b.results

\* C11: with the model and the index behaving as fixed functions of the text
\* (in the running call and in the calls that filled the cache), the answer,
\* intent, response type and retrieved chunks process_contextual_query
\* returns for a question are those the pipeline computes for that question
\* without a cache
C11_CacheKeepsContent ==
    (Returned /\ mode = "contextual" /\ CacheFollowsFixed /\ CallFollowsFixed)
        => LET pq == processing_question(question, corrected_question)
           IN /\ ~UncachedResult(pq).raised
              /\ Content(result) = Content(UncachedResult(pq))

\* -------------------------------------------------------------------------
\* Concurrent calls of process_contextual_query on the shared engine: each
\* thread runs the cache methods statement by statement (a thread switch can
\* fall between any two statements), the model and the index behaving as the
\* fixed functions above.  _save_cache writes the file from the dict after
\* each write; the file is read at construction only, so the dict alone is
\* the state the threads share
\* -------------------------------------------------------------------------
\* the questions the concurrent callers ask
ConcQueries ==
    { <<"best", "phone", "for", "farm">>, <<"best", "phone", "for", "farm", "akre">> }

callVars == <<ncalls, pc, mode, question, corrected_question, natural_intent,
              intent, retrieved, generated, result, stage_log>>

\* the thread t moves on, the other threads stay
ThreadStep(t, new) == threads' = [threads EXCEPT ![t] = new]

\* the next statement after a dict iteration step of is_cached or
\* get_cached_result: RuntimeError when the dict changed size since the
\* iteration began, the end of the loop, a similar entry, or the next item
IterStep(t, on_found, on_end) ==
    LET th == threads[t]
    IN IF Len(query_cache) # th.size
       THEN [th EXCEPT !.pc = "raised"]
       ELSE IF th.pos > th.size
       THEN [th EXCEPT !.pc = on_end]
       ELSE IF queries_similar(Normalized(th.query), Normalized(query_cache[th.pos].query))
       THEN [th EXCEPT !.pc = on_found, !.cached = th.pos]
       ELSE [th EXCEPT !.pos = @ + 1]

\* a thread enters process_contextual_query(q); correction and the natural
\* intent touch no shared state
ConcBegin(t, q) ==
    /\ threads[t].pc = "idle"
    /\ threads[t].calls < MaxCalls
    /\ ThreadStep(t, [IdleThread EXCEPT !.pc = "is_cached", !.query = q,
                         !.calls = threads[t].calls + 1, !.hits = threads[t].hits,
                         !.overwrote = threads[t].overwrote])
    /\ UNCHANGED <<envVars, query_cache, callVars, app, voice>>

\* is_cached: query_hash in self.query_cache, else the loop begins
ConcIsCached(t) ==
    /\ threads[t].pc = "is_cached"
    /\ ThreadStep(t, IF HashIndex(query_cache, get_query_hash(threads[t].query)) # 0
                     THEN [threads[t] EXCEPT !.pc = "get_lookup"]
                     ELSE [threads[t] EXCEPT !.pc = "is_cached_iter", !.pos = 1,
                                             !.size = Len(query_cache)])
    /\ UNCHANGED <<envVars, query_cache, callVars, app, voice>>

\* is_cached: one step of for ... in self.query_cache.items()
ConcIsCachedIter(t) ==
    /\ threads[t].pc = "is_cached_iter"
    /\ ThreadStep(t, IterStep(t, "get_lookup", "pipeline"))
    /\ UNCHANGED <<envVars, query_cache, callVars, app, voice>>

\* get_cached_result: the exact key, else the loop begins
ConcGetLookup(t) ==
    /\ threads[t].pc = "get_lookup"
    /\ LET k == HashIndex(query_cache, get_query_hash(threads[t].query))
       IN ThreadStep(t, IF k # 0
                        THEN [threads[t] EXCEPT !.pc = "get_read_count", !.cached = k,
                                                !.stale = FALSE]
                        ELSE [threads[t] EXCEPT !.pc = "get_iter", !.pos = 1,
                                                !.size = Len(query_cache)])
    /\ UNCHANGED <<envVars, query_cache, callVars, app, voice>>

\* get_cached_result: one step of its loop; without a similar entry it
\* returns None and the call goes on with the pipeline
ConcGetIter(t) ==
    /\ threads[t].pc = "get_iter"
    /\ ThreadStep(t, LET n == IterStep(t, "get_read_count", "pipeline")
                     IN [n EXCEPT !.stale = FALSE])
    /\ UNCHANGED <<envVars, query_cache, callVars, app, voice>>

\* cached['access_count'] += 1, the read
ConcGetReadCount(t) ==
    /\ threads[t].pc = "get_read_count"
    /\ ThreadStep(t, [threads[t] EXCEPT
                        !.pc = "get_write_count",
                        !.count_read = IF threads[t].stale THEN 0
                                       ELSE query_cache[threads[t].cached].access_count])
    /\ UNCHANGED <<envVars, query_cache, callVars, app, voice>>

\* cached['access_count'] += 1, the write (into the dict object the thread
\* holds, which is no longer in the cache when its key was written again);
\* then the result is returned and process_contextual_query compares intents
ConcGetWriteCount(t) ==
    /\ threads[t].pc = "get_write_count"
    /\ LET th == threads[t]
           entry == query_cache[th.cached]
           natural == classify_intent_ultra_fast(FixedReply(th.query))
       IN /\ query_cache' = IF th.stale THEN query_cache
                            ELSE [query_cache EXCEPT
                                    ![th.cached].access_count = th.count_read + 1]
          /\ ThreadStep(t, [th EXCEPT
                              !.hits = @ + 1,
                              !.pc = IF entry.intent = natural THEN "idle" ELSE "pipeline"])
    /\ UNCHANGED <<envVars, callVars, app, voice>>

\* query_agricultural_knowledge computes the result; cache_new_query then
\* tests query_hash not in self.query_cache
ConcCacheNewCheck(t) ==
    /\ threads[t].pc = "pipeline"
    /\ ThreadStep(t, [threads[t] EXCEPT
                        !.pc = IF HashIndex(query_cache, get_query_hash(threads[t].query)) = 0
                               THEN "cache_new_write" ELSE "idle"])
    /\ UNCHANGED <<envVars, query_cache, callVars, app, voice>>

\* cache_new_query: self.query_cache[query_hash] = {...}; a key present by
\* now gets a new dict object in its place
ConcCacheNewWrite(t) ==
    /\ threads[t].pc = "cache_new_write"
    /\ LET th == threads[t]
           k == HashIndex(query_cache, get_query_hash(th.query))
           entry == CacheEntry(th.query, UncachedResult(th.query))
       IN /\ query_cache' = IF k = 0 THEN Append(query_cache, entry)
                            ELSE [query_cache EXCEPT ![k] = entry]
          /\ threads' = [u \in Threads |->
                IF u = t
                THEN [th EXCEPT !.pc = "idle", !.overwrote = @ \/ k # 0]
                ELSE IF k # 0 /\ threads[u].cached = k
                        /\ threads[u].pc \in {"get_read_count", "get_write_count"}
                THEN [threads[u] EXCEPT !.stale = TRUE]
                ELSE threads[u]]
    /\ UNCHANGED <<envVars, callVars, app, voice>>

\* the RuntimeError leaves process_contextual_query
ConcRaise(t) ==
    /\ threads[t].pc = "raised"
    /\ ThreadStep(t, [threads[t] EXCEPT !.pc = "idle"])
    /\ UNCHANGED <<envVars, query_cache, callVars, app, voice>>

NextConc ==
    \/ \E t \in Threads, q \in ConcQueries : ConcBegin(t, q)
    \/ \E t \in Threads : ConcIsCached(t)
    \/ \E t \in Threads : ConcIsCachedIter(t)
    \/ \E t \in Threads : ConcGetLookup(t)
    \/ \E t \in Threads : ConcGetIter(t)
    \/ \E t \in Threads : ConcGetReadCount(t)
    \/ \E t \in Threads : ConcGetWriteCount(t)
    \/ \E t \in Threads : ConcCacheNewCheck(t)
    \/ \E t \in Threads : ConcCacheNewWrite(t)
    \/ \E t \in Threads : ConcRaise(t)

SpecConc == InitFn /\ [][NextConc]_vars

\* the accesses the entries of the cache have counted
RECURSIVE SumAccessCount(_)
SumAccessCount(cache) ==
    IF cache = <<>> THEN 0
    ELSE cache[1].access_count + SumAccessCount(Tail(cache))

\* the hits get_cached_result has served to the threads
RECURSIVE SumHits(_)
SumHits(S) ==
    IF S = {} THEN 0
    ELSE LET t == CHOOSE u \in S : TRUE
         IN threads[t].hits + SumHits(S \ {t})

\* no thread stands between the read and the write of an access_count
NoIncrementRunning ==
    \A t \in Threads : threads[t].pc # "get_write_count"

\* cache_new_query never writes under a key that is present
C12_InsertIfAbsent == \A t \in Threads : ~threads[t].overwrote

\* a dict iteration never finds the dict resized
C12_NoResizeSeen == \A t \in Threads : threads[t].pc # "raised"

\* every hit served is counted by its entry
C12_NoLostIncrement ==
    NoIncrementRunning => SumAccessCount(query_cache) = SumHits(Threads)

\* C12: with calls of process_contextual_query running concurrently,
\* cache_new_query is an atomic insert-if-absent (it never writes over an
\* entry), a lookup iterating the cache never sees it resized by an insert,
\* and no access_count increment of concurrent hits is lost
C12_ConcurrentCacheSafe ==
    /\ C12_InsertIfAbsent
    /\ C12_NoResizeSeen
    /\ C12_NoLostIncrement

\* C13: an entry cache_new_query has written stays as written: no step of
\* any call changes a field of an entry the cache (and its file, saved after
\* every write) holds
C13_EntriesImmutable ==
    [][\A k \in 1..Len(query_cache) :
          /\ k <= Len(query_cache')
          /\ query_cache'[k] = query_cache[k]]_vars

\* the embedding call of retrieve_ultra_fast failed in the running call
EmbeddingFailed == \E i \in StageAt("retrieve") : stage_log[i].outcome = Raised

\* the generation model call of generate_ultra_fast_answer failed
GenerationFailed == generated.raised

\* C14: a call whose embedding call or generation model call fails does not
\* raise, and what it returns is the message M2 with the response type
\* NO_RELEVANT_CHUNKS
C14_FailureYieldsNoContext ==
    (EmbeddingFailed \/ GenerationFailed) =>
        /\ pc # "raised"
        /\ Returned => /\ result.answer = M2
                       /\ result.response_type = "NO_RELEVANT_CHUNKS"

\* the chunk store was not loaded at startup while the index was
ChunksMissing == index_loaded /\ chunks = <<>>

\* C15: with the chunk store empty and the index loaded, a call whose
\* embedding and generation services work does not raise, and a result of
\* intent AGRICULTURE holds no retrieved chunk and has the response type
\* NO_RELEVANT_CHUNKS
C15_MissingChunksDegrade ==
    (ChunksMissing /\ ~EmbeddingFailed /\ ~GenerationFailed) =>
        /\ pc # "raised"
        /\ (Returned /\ result.intent = "AGRICULTURE") =>
              /\ result.retrieved_chunks = <<>>
              /\ result.answer = M2
              /\ result.response_type = "NO_RELEVANT_CHUNKS"

\* C16: with the index not loaded no call raises, retrieve_ultra_fast calls
\* no embedding service, and a result of intent AGRICULTURE holds no
\* retrieved chunk, the message M2 and the response type NO_RELEVANT_CHUNKS
C16_MissingIndexDegrades ==
    ~index_loaded =>
        /\ pc # "raised"
        /\ \A i \in StageAt("retrieve") : ~stage_log[i].llm
        /\ (Returned /\ result.intent = "AGRICULTURE") =>
              /\ result.retrieved_chunks = <<>>
              /\ result.answer = M2
              /\ result.response_type = "NO_RELEVANT_CHUNKS"

\* an AGRICULTURE query went through retrieval without an index and returned
C16_Witness ==
    /\ ~index_loaded
    /\ Returned
    /\ result.intent = "AGRICULTURE"
    /\ StageAt("retrieve") # {}
    /\ StageAt("generate") # {}

\* the applications that build the 'performance' of an envelope
TimingFunctions ==
    {"query_agricultural_knowledge", "process_contextual_query", "get_cached_result"}

\* C17: in the 'performance' of every envelope (query_agricultural_knowledge,
\* a first run of process_contextual_query, a cache hit) the three stage
\* times are not negative and total_time is within 10 ms of their sum
C17_TimesAddUp ==
    app.fn \in TimingFunctions =>
        LET p == app.out
            sum == p.intent_time + p.retrieval_time + p.generation_time
        IN /\ p.intent_time >= 0
           /\ p.retrieval_time >= 0
           /\ p.generation_time >= 0
           /\ p.total_time - sum <= 10
           /\ sum - p.total_time <= 10

\* C18: every latency value of an envelope is the duration measured for it
\* in that call
C18_TimesAreMeasured ==
    app.fn \in TimingFunctions => app.out = app.measured

\* the fields of the answer envelope, as the keys of the returned dict (the
\* four latency values are the dict under 'performance')
EnvelopeKeys ==
    {"question", "corrected_question", "intent", "answer", "response_type",
     "retrieved_chunks", "performance"}

\* C19: every result process_contextual_query returns, from the cache or
\* from the pipeline, carries all envelope fields
C19_EnvelopeComplete ==
    (Returned /\ mode = "contextual") => EnvelopeKeys \subseteq result.keys

\* C20: what retrieve_ultra_fast returns holds at most top_k results, one
\* for every hit of index.search with a valid index and none for a sentinel,
\* in the order of the hits, so that the scores descend from the best one
C20_RetrieveTopK ==
    (app.fn = "retrieve_ultra_fast" /\ ~app.out.raised) =>
        LET results == app.out.results
            valid == {i \in 1..Len(app.hits) : app.hits[i].idx >= 0}
        IN /\ Len(results) <= app.top_k
           /\ Len(results) = Cardinality(valid)
           /\ \A j \in 1..Len(results) :
                 \* the j-th result is the j-th valid hit
                 \E i \in valid :
                    /\ Cardinality({k \in valid : k < i}) = j - 1
                    /\ results[j].content = app.chunks[app.hits[i].idx + 1]
                    /\ results[j].score = app.hits[i].score
           /\ \A j \in 1..Len(results), k \in 1..Len(results) :
                 j < k => results[j].score >= results[k].score

\* retrieve_ultra_fast was asked for more than one hit and the search gave a
\* valid hit followed by a sentinel
C20_Witness ==
    /\ app.fn = "retrieve_ultra_fast"
    /\ app.top_k > 1
    /\ Len(app.out.results) = 1
    /\ app.hits[app.top_k].idx < 0
    /\ ~app.out.raised

\* the key occurs in the text at position i, as whole words and whatever
\* the case
OccursAt(key, text, i) ==
    /\ key # <<>>
    /\ i >= 1
    /\ i + Len(key) - 1 <= Len(text)
    /\ LowerSeq(SubSeq(text, i, i + Len(key) - 1)) = key

\* the words i..i+Len(k1)-1 and j..j+Len(k2)-1 share a word
Overlapping(i, k1, j, k2) == i <= j + Len(k2) - 1 /\ j <= i + Len(k1) - 1

\* the keys of a correction map
KeysOf(m) == {m[i][1] : i \in 1..Len(m)}

\* C21: where a longer and a shorter key of the correction map both match
\* overlapping words of the query (and no still longer key matches there),
\* the text correct_query returns holds the canonical term of the longer key
C21_LongestVariantWins ==
    app.fn = "correct_query" =>
        LET m == build_correction_map(app.vocabulary)
        IN \A k1 \in KeysOf(m), k2 \in KeysOf(m) :
             \A i \in 1..Len(app.query), j \in 1..Len(app.query) :
                (/\ StrLen(k1) > StrLen(k2)
                 /\ OccursAt(k1, app.query, i)
                 /\ OccursAt(k2, app.query, j)
                 /\ Overlapping(i, k1, j, k2)
                 /\ \A k3 \in KeysOf(m), h \in 1..Len(app.query) :
                       (OccursAt(k3, app.query, h) /\ Overlapping(i, k1, h, k3))
                           => StrLen(k3) <= StrLen(k1))
                    => Contains(app.out, DictGet(m, k1))

\* C22: the corrections correct_agricultural_terms returns are the
\* corrections applied: the original of each entry is a key of the map and
\* a word of the query, its corrected value is the canonical term of that
\* key and stands in the corrected text; and every key that matches the
\* query (no longer key matching there) with a canonical term other than
\* the matched words has an entry
C22_CorrectionsExact ==
    app.fn = "correct_agricultural_terms" =>
        LET m == build_correction_map(app.vocabulary)
            corrected == app.out[1]
            corrections == app.out[2]
        IN /\ \A c \in corrections :
                 /\ DictHas(m, <<c[1]>>)
                 /\ c[1] \in WordSet(LowerSeq(app.query))
                 /\ c[2] = DictGet(m, <<c[1]>>)
                 /\ Contains(corrected, c[2])
           /\ \A k \in KeysOf(m), i \in 1..Len(app.query) :
                 (/\ OccursAt(k, app.query, i)
                  /\ SubSeq(app.query, i, i + Len(k) - 1) # DictGet(m, k)
                  /\ \A k3 \in KeysOf(m), h \in 1..Len(app.query) :
                        (OccursAt(k3, app.query, h) /\ Overlapping(i, k, h, k3))
                            => StrLen(k3) <= StrLen(k))
                     => \E c \in corrections : <<c[1]>> = k

\* C23: for the empty query and for a query of whitespace alone,
\* correct_agricultural_terms returns the query as it is and no correction,
\* whatever the vocabulary
C23_BlankQueryUnchanged ==
    (app.fn = "correct_agricultural_terms" /\ app.query \in BlankTexts) =>
        /\ app.out[1] = app.query
        /\ app.out[2] = {}

\* a whitespace query went through the corrector with a vocabulary loaded
C23_Witness ==
    /\ app.fn = "correct_agricultural_terms"
    /\ app.query = <<Blank>>
    /\ app.vocabulary # <<>>
    /\ app.out[1] = <<Blank>>

\* C24: with vocabulary.json absent, unparsable or parsed to a value of
\* another shape than category -> {term -> list of variations}, constructing
\* VocabularyCorrector does not raise, and every query is returned as it is
\* with no correction
C24_BadVocabularyIsIdentity ==
    (app.fn = "VocabularyCorrector" /\ ~WellShaped(app.file)) =>
        /\ ~app.raised
        /\ app.out = <<app.query, {}>>

\* -------------------------------------------------------------------------
\* VoiceInterface.process_audio (voice_interface.py), in one Streamlit
\* session
\* -------------------------------------------------------------------------
\* self.instant_responses, of which one key is kept
instant_responses ==
    << << <<"how", "to", "control", "thrips", "in", "chilli">>,
          <<"Foliar spray with Imidacloprid 200 ml/acre or Diafenthiuron 400 ml/acre.">> >> >>

\* what speech_to_text returns for the recordings of the session; the empty
\* text stands for None (an error of the transcription call)
VoiceTranscripts ==
    { <<>>,
      <<"dormolin", "phone">>,
      <<"basil">>,
      <<"how", "to", "control", "thrips", "in", "chilli">> }

\* the keys of result['performance'] of query_agricultural_knowledge, and
\* those process_audio reads for rag_breakdown
PerformanceKeys == {"total_time", "intent_time", "retrieval_time", "generation_time"}
BreakdownKeys == {"intent_time", "retrieval_time", "generation_time"}

\* the result built for an instant response (lines 137-144)
InstantResult(answer) ==
    [NoResult EXCEPT
       !.keys = {"answer", "intent", "response_type", "retrieved_chunks",
                 "performance", "cache_hit"},
       !.answer = answer,
       !.intent = "AGRICULTURE",
       !.response_type = "AGRICULTURE_WITH_CONTEXT"]

\* st.session_state.ui_cache[query_key] = result.copy()
UiCacheSet(ui_cache, key, r, performance_keys) ==
    LET e == [key |-> key, result |-> r, performance_keys |-> performance_keys]
    IN IF \E i \in 1..Len(ui_cache) : ui_cache[i].key = key
       THEN [i \in 1..Len(ui_cache) |-> IF ui_cache[i].key = key THEN e ELSE ui_cache[i]]
       ELSE Append(ui_cache, e)

UiCacheHas(ui_cache, key) == \E i \in 1..Len(ui_cache) : ui_cache[i].key = key

UiCacheGet(ui_cache, key) ==
    ui_cache[CHOOSE i \in 1..Len(ui_cache) : ui_cache[i].key = key]

\* process_audio(audio_bytes), lines 99-115: no audio, or the transcription
VoiceBegin(audio_empty, transcript) ==
    /\ pc = "idle"
    /\ ncalls < MaxCalls
    /\ ncalls' = ncalls + 1
    /\ mode' = "voice"
    /\ corrected_question' = <<>>
    /\ natural_intent' = "none"
    /\ intent' = "none"
    /\ retrieved' = <<>>
    /\ generated' = NoGenerated
    /\ result' = NoResult
    /\ stage_log' = <<>>
    /\ IF audio_empty
       THEN /\ question' = <<>>
            /\ voice' = [voice EXCEPT !.returned = NoneReturned]
            /\ pc' = "done"
       ELSE IF transcript = <<>>
       THEN /\ question' = <<>>
            /\ voice' = [voice EXCEPT !.returned = SttErrorReturned]
            /\ pc' = "done"
       ELSE /\ question' = transcript
            /\ voice' = voice
            /\ pc' = "voice_lookup"
    /\ UNCHANGED <<envVars, query_cache, app, threads>>

\* lines 121-144: the UI cache under question.lower().strip(), then the
\* instant responses under the question without its '?'
VoiceLookup ==
    /\ pc = "voice_lookup"
    /\ LET query_key == LowerSeq(question)
           question_normalized == LowerSeq(question)
           ui_event == IF voice.ui_cache_present
                       THEN <<Event("ui_cache_lookup", question, FALSE, NoOutcome)>>
                       ELSE <<>>
       IN IF voice.ui_cache_present /\ UiCacheHas(voice.ui_cache, query_key)
          THEN LET cached == UiCacheGet(voice.ui_cache, query_key)
               IN /\ result' = [cached.result EXCEPT
                                  !.cache_hit = TRUE, !.keys = @ \cup {"cache_hit"}]
                  /\ voice' = [voice EXCEPT !.cache_hit = TRUE,
                                            !.performance_keys = cached.performance_keys]
                  /\ stage_log' = stage_log \o ui_event
                  /\ pc' = "voice_finish"
          ELSE /\ stage_log' = stage_log \o ui_event \o
                       <<Event("instant_lookup", question, FALSE, NoOutcome)>>
               /\ IF DictHas(instant_responses, question_normalized)
                  THEN /\ result' = InstantResult(DictGet(instant_responses,
                                                          question_normalized))
                       /\ voice' = [voice EXCEPT !.performance_keys = {"total_time"}]
                       /\ pc' = "voice_finish"
                  ELSE /\ result' = result
                       /\ voice' = voice
                       /\ pc' = "qak_intent"
    /\ UNCHANGED <<envVars, query_cache, ncalls, mode, question, corrected_question,
                   natural_intent, intent, retrieved, generated, app, threads>>

\* lines 150-154: what agricultural_rag.query_agricultural_knowledge(question)
\* returned, marked as no cache hit
VoiceAfterQak ==
    /\ pc = "finish"
    /\ mode = "voice"
    /\ result' = [PipelineResult EXCEPT !.keys = @ \cup {"cache_hit"}]
    /\ voice' = [voice EXCEPT !.performance_keys = PerformanceKeys]
    /\ pc' = "voice_finish"
    /\ UNCHANGED <<envVars, query_cache, ncalls, mode, question, corrected_question,
                   natural_intent, intent, retrieved, generated, stage_log, app, threads>>

\* lines 158-224: the result is stored in the UI cache, the answer is turned
\* to speech (None when gTTS fails), the question is noted in
\* voice_query_history, and the metrics read the three stage times of
\* result['performance']: a KeyError there is caught at line 226 and
\* (None, None, None, None) is returned
VoiceFinish ==
    /\ pc = "voice_finish"
    /\ \E tts_ok \in BOOLEAN :
         LET query_key == LowerSeq(question)
         IN voice' = [voice EXCEPT
               !.ui_cache = IF ~voice.cache_hit /\ voice.ui_cache_present
                            THEN UiCacheSet(@, query_key, result, voice.performance_keys)
                            ELSE @,
               !.history = IF voice.cache_hit THEN @ ELSE @ \cup {query_key},
               !.returned = IF BreakdownKeys \subseteq voice.performance_keys
                            THEN [kind |-> "ok", result |-> result, audio_file |-> tts_ok]
                            ELSE NoneReturned]
    /\ pc' = "done"
    /\ UNCHANGED <<envVars, query_cache, ncalls, mode, question, corrected_question,
                   natural_intent, intent, retrieved, generated, result, stage_log,
                   app, threads>>

\* an exception of query_agricultural_knowledge is caught at line 226
VoiceCatch ==
    /\ pc = "raised"
    /\ mode = "voice"
    /\ voice' = [voice EXCEPT !.returned = NoneReturned]
    /\ pc' = "done"
    /\ UNCHANGED <<envVars, query_cache, ncalls, mode, question, corrected_question,
                   natural_intent, intent, retrieved, generated, result, stage_log,
                   app, threads>>

\* the caller takes what process_audio returned
VoiceReturn ==
    /\ pc = "done"
    /\ mode = "voice"
    /\ pc' = "idle"
    /\ mode' = "none"
    /\ question' = <<>>
    /\ corrected_question' = <<>>
    /\ natural_intent' = "none"
    /\ intent' = "none"
    /\ retrieved' = <<>>
    /\ generated' = NoGenerated
    /\ result' = NoResult
    /\ stage_log' = <<>>
    /\ voice' = [voice EXCEPT !.cache_hit = FALSE, !.performance_keys = {},
                              !.returned = NotReturned]
    /\ UNCHANGED <<envVars, query_cache, ncalls, app, threads>>

InitVoice ==
    /\ InitBase
    /\ index_loaded
    /\ chunks = ChunkStore
    /\ voice \in {NewSession(p) : p \in BOOLEAN}

NextVoice ==
    \/ \E audio_empty \in BOOLEAN, transcript \in VoiceTranscripts :
          VoiceBegin(audio_empty, transcript)
    \/ VoiceLookup
    \/ QakIntent
    \/ QakRetrieve
    \/ QakGenerate
    \/ VoiceAfterQak
    \/ VoiceFinish
    \/ VoiceCatch
    \/ VoiceReturn

SpecVoice == InitVoice /\ [][NextVoice]_vars

\* the events of a voice query that work on a text: lookups,
\* classification, retrieval, generation
VoiceSteps ==
    {i \in 1..Len(stage_log) :
        stage_log[i].stage \in {"ui_cache_lookup", "instant_lookup", "classify",
                                "retrieve", "generate"}}

\* C25: in process_audio every cache lookup, instant-response lookup,
\* classification, retrieval and generation works on the vocabulary-corrected
\* text of the transcribed question
C25_VoiceStepsOnCorrectedText ==
    mode = "voice" =>
        \A i \in VoiceSteps : stage_log[i].arg = correct_query(vocabulary, question)

\* C26: classify_intent never returns NON_AGRICULTURE for a query that
\* mentions a product of the product database, whatever non-agricultural
\* keywords the query holds besides
C26_ProductNeverNonAgriculture ==
    (app.fn = "classify_intent"
       /\ product_database \cap preprocess_query(app.query) # {})
        => app.out.intent # "NON_AGRICULTURE"

\* process_contextual_query ran the full pipeline to its end in this call
FullPipelineReturned ==
    /\ pc = "done"
    /\ mode = "contextual"
    /\ "original_question" \in result.keys

\* C27: after a process_contextual_query call that ran the full pipeline
\* (cache miss, or cached intent other than the natural intent), the cache
\* entry under the query's key holds the intent, the answer and the
\* response_type of the result just returned
C27_PipelineRunRefreshesEntry ==
    (FullPipelineReturned /\ optimizer_ok) =>
        LET pq == processing_question(question, corrected_question)
            k == HashIndex(query_cache, get_query_hash(pq))
        IN /\ k # 0
           /\ query_cache[k].intent = result.intent
           /\ query_cache[k].answer = result.answer
           /\ query_cache[k].response_type = result.response_type

\* C28: the intent reported by process_contextual_query is the natural
\* intent classify_intent_ultra_fast gave for the corrected query at the
\* start of the same call, on the cache-hit path and on the full-pipeline
\* path
C28_ReportedIntentIsNatural ==
    (pc = "done" /\ mode = "contextual") => result.intent = natural_intent

\* the queries that differ from q only in letter case, in surrounding or
\* repeated whitespace, or in trailing '?', '!' or '.'
Variations(q) ==
    {lower(q), <<" ">> \o q, q \o <<" ">>, q \o <<"?">>, q \o <<".">>,
     q \o <<" ", "?">>}
      \cup {SubSeq(q, 1, i) \o <<" ">> \o SubSeq(q, i + 1, Len(q)) :
               i \in {j \in 1..Len(q) : q[j] = " "}}

\* C29: the normalisation of _get_query_hash is idempotent, and queries that
\* differ only in letter case, in surrounding or repeated whitespace or in
\* trailing '?', '!', '.' (also after whitespace, 'what ?' and 'what?') get
\* the same key
C29_HashNormalisationStable ==
    app.fn = "_get_query_hash" =>
        /\ normalized(app.out) = app.out
        /\ \A v \in Variations(app.query) : normalized(v) = app.out

\* C30: when the transcribed question is a key of instant_responses,
\* process_audio returns the question with a result whose answer is the
\* pre-computed text, with metrics and an audio file, and not the error
\* outcome (None, None, None, None), on the first request and on every
\* repeat
C30_InstantResponseReturned ==
    (pc = "done" /\ mode = "voice" /\ question # <<>>
       /\ DictHas(instant_responses, LowerSeq(question)))
        => /\ voice.returned.kind = "ok"
           /\ voice.returned.result.answer =
                  DictGet(instant_responses, LowerSeq(question))

====
